---------------------------- MODULE Spec2Model ----------------------------
(***************************************************************************)
(* The "projects" store of portfolio-backend: the HTTP handlers of app.py  *)
(* (list, create, update, delete) and the seed script seed_projects.py,    *)
(* all writing the table public.projects.                                  *)
(*                                                                         *)
(* A Python str is a sequence of one-character strings.  A Python or JSON  *)
(* value is a record [t, s, items]: t is its kind ("null", "bool", "num",  *)
(* "str", "arr", "obj"), s the characters of a str, num or bool, items the *)
(* elements of an arr, or the keys and values of an obj in turn.           *)
(***************************************************************************)
EXTENDS Integers, Sequences, FiniteSets, TLC

MinOf(S) == CHOOSE x \in S : \A y \in S : x <= y
MaxOf(S) == CHOOSE x \in S : \A y \in S : x >= y

(***************************************************************************)
(* Python values                                                           *)
(***************************************************************************)
PyNone == [t |-> "null", s |-> <<>>, items |-> <<>>]
PyStr(chars) == [t |-> "str", s |-> chars, items |-> <<>>]
PyNum(digits) == [t |-> "num", s |-> digits, items |-> <<>>]
PyBool(word) == [t |-> "bool", s |-> word, items |-> <<>>]
PyList(xs) == [t |-> "arr", s |-> <<>>, items |-> xs]
PyDict(kvs) == [t |-> "obj", s |-> <<>>, items |-> kvs]
\* a list of str, as a value
StrList(strs) == PyList([i \in 1..Len(strs) |-> PyStr(strs[i])])

WordNull == <<"n", "u", "l", "l">>
WordTrue == <<"t", "r", "u", "e">>
WordFalse == <<"f", "a", "l", "s", "e">>

\* Python truth value, as `x or y` tests it
Falsy(v) ==
    \/ v.t = "null"
    \/ v.t = "str" /\ v.s = <<>>
    \/ v.t = "arr" /\ v.items = <<>>
    \/ v.t = "obj" /\ v.items = <<>>
    \/ v.t = "num" /\ v.s = <<"0">>
    \/ v.t = "bool" /\ v.s = WordFalse
PyOr(a, b) == IF Falsy(a) THEN b ELSE a

(***************************************************************************)
(* str methods                                                             *)
(***************************************************************************)
UpperChars == <<"A", "C", "G", "R", "S">>
LowerChars == <<"a", "c", "g", "r", "s">>
LowerChar(c) ==
    IF \E i \in 1..Len(UpperChars) : UpperChars[i] = c
    THEN LowerChars[CHOOSE i \in 1..Len(UpperChars) : UpperChars[i] = c]
    ELSE c
\* str.lower(), and lower() of the store
Lower(str) == [i \in 1..Len(str) |-> LowerChar(str[i])]

\* str.strip()
Strip(str) ==
    LET solid == {i \in 1..Len(str) : str[i] # " "}
    IN  IF solid = {} THEN <<>> ELSE SubSeq(str, MinOf(solid), MaxOf(solid))

\* str.split(","): "" gives [""]
RECURSIVE SplitComma(_)
SplitComma(str) ==
    LET commas == {i \in 1..Len(str) : str[i] = ","}
    IN  IF commas = {} THEN <<str>>
        ELSE <<SubSeq(str, 1, MinOf(commas) - 1)>>
             \o SplitComma(SubSeq(str, MinOf(commas) + 1, Len(str)))

(***************************************************************************)
(* json.dumps (default separators) and json.loads                          *)
(***************************************************************************)
RECURSIVE EscapeStr(_)
EscapeStr(str) ==
    IF str = <<>> THEN <<>>
    ELSE (IF Head(str) \in {"\"", "\\"} THEN <<"\\", Head(str)>> ELSE <<Head(str)>>)
         \o EscapeStr(Tail(str))

RECURSIVE JsonDumps(_)
RECURSIVE DumpItems(_, _)
RECURSIVE DumpMembers(_, _)
DumpItems(xs, i) ==
    IF i > Len(xs) THEN <<>>
    ELSE (IF i > 1 THEN <<",", " ">> ELSE <<>>) \o JsonDumps(xs[i]) \o DumpItems(xs, i + 1)
DumpMembers(kvs, i) ==
    IF i > Len(kvs) THEN <<>>
    ELSE (IF i > 1 THEN <<",", " ">> ELSE <<>>)
         \o JsonDumps(kvs[i]) \o <<":", " ">> \o JsonDumps(kvs[i + 1])
         \o DumpMembers(kvs, i + 2)
JsonDumps(v) ==
    CASE v.t = "null" -> WordNull
      [] v.t = "bool" -> v.s
      [] v.t = "num" -> v.s
      [] v.t = "str" -> <<"\"">> \o EscapeStr(v.s) \o <<"\"">>
      [] v.t = "arr" -> <<"[">> \o DumpItems(v.items, 1) \o <<"]">>
      [] v.t = "obj" -> <<"{">> \o DumpMembers(v.items, 1) \o <<"}">>

Digits == {"0", "1", "2", "3", "4", "5", "6", "7", "8", "9"}
ParseFail == [ok |-> FALSE, val |-> PyNone, pos |-> 0]
Parsed(v, p) == [ok |-> TRUE, val |-> v, pos |-> p]
At(cs, i) == IF i >= 1 /\ i <= Len(cs) THEN cs[i] ELSE ""
HasWord(cs, i, w) == i + Len(w) - 1 <= Len(cs) /\ SubSeq(cs, i, i + Len(w) - 1) = w

SkipWs(cs, i) ==
    LET solid == {j \in i..Len(cs) : cs[j] # " "}
    IN  IF solid = {} THEN Len(cs) + 1 ELSE MinOf(solid)

\* the characters of a JSON string, from the one after its opening quote
RECURSIVE ScanStr(_, _, _)
ScanStr(cs, j, acc) ==
    IF j > Len(cs) THEN ParseFail
    ELSE IF cs[j] = "\"" THEN Parsed(PyStr(acc), j + 1)
    ELSE IF cs[j] = "\\"
         THEN IF At(cs, j + 1) \in {"\"", "\\"}
              THEN ScanStr(cs, j + 2, Append(acc, cs[j + 1]))
              ELSE ParseFail
    ELSE ScanStr(cs, j + 1, Append(acc, cs[j]))

ParseNumber(cs, i) ==
    LET stops == {j \in i..Len(cs) : cs[j] \notin Digits}
        end == IF stops = {} THEN Len(cs) + 1 ELSE MinOf(stops)
    IN  IF end - i > 1 /\ cs[i] = "0" THEN ParseFail
        ELSE Parsed(PyNum(SubSeq(cs, i, end - 1)), end)

RECURSIVE ParseValue(_, _)
RECURSIVE ParseElems(_, _, _)
RECURSIVE ParseMembers(_, _, _)
ParseElems(cs, i, acc) ==
    LET v == ParseValue(cs, i)
        k == SkipWs(cs, v.pos)
    IN  IF ~v.ok THEN ParseFail
        ELSE IF At(cs, k) = "," THEN ParseElems(cs, SkipWs(cs, k + 1), Append(acc, v.val))
        ELSE IF At(cs, k) = "]" THEN Parsed(PyList(Append(acc, v.val)), k + 1)
        ELSE ParseFail
ParseMembers(cs, i, acc) ==
    LET key == IF At(cs, i) = "\"" THEN ScanStr(cs, i + 1, <<>>) ELSE ParseFail
        c == SkipWs(cs, key.pos)
        v == ParseValue(cs, SkipWs(cs, c + 1))
        k == SkipWs(cs, v.pos)
    IN  IF ~key.ok \/ At(cs, c) # ":" THEN ParseFail
        ELSE IF ~v.ok THEN ParseFail
        ELSE IF At(cs, k) = ","
             THEN ParseMembers(cs, SkipWs(cs, k + 1), acc \o <<key.val, v.val>>)
        ELSE IF At(cs, k) = "}" THEN Parsed(PyDict(acc \o <<key.val, v.val>>), k + 1)
        ELSE ParseFail
ParseValue(cs, i) ==
    LET c == At(cs, i)
    IN  CASE c = "\"" -> ScanStr(cs, i + 1, <<>>)
          [] c \in Digits -> ParseNumber(cs, i)
          [] c = "[" ->
                IF At(cs, SkipWs(cs, i + 1)) = "]"
                THEN Parsed(PyList(<<>>), SkipWs(cs, i + 1) + 1)
                ELSE ParseElems(cs, SkipWs(cs, i + 1), <<>>)
          [] c = "{" ->
                IF At(cs, SkipWs(cs, i + 1)) = "}"
                THEN Parsed(PyDict(<<>>), SkipWs(cs, i + 1) + 1)
                ELSE ParseMembers(cs, SkipWs(cs, i + 1), <<>>)
          [] HasWord(cs, i, WordNull) -> Parsed(PyNone, i + Len(WordNull))
          [] HasWord(cs, i, WordTrue) -> Parsed(PyBool(WordTrue), i + Len(WordTrue))
          [] HasWord(cs, i, WordFalse) -> Parsed(PyBool(WordFalse), i + Len(WordFalse))
          [] OTHER -> ParseFail

\* json.loads: ok is FALSE where it raises JSONDecodeError
JsonLoads(cs) ==
    LET v == ParseValue(cs, SkipWs(cs, 1))
    IN  IF v.ok /\ SkipWs(cs, v.pos) > Len(cs) THEN v ELSE ParseFail

(***************************************************************************)
(* app.py: payload validation and normalisation                            *)
(***************************************************************************)
MinTitleLen == 1
MaxTitleLen == 255

\* _ensure_list: the str items of a list stripped, the empty ones dropped;
\* a str split at its commas
RECURSIVE StripItems(_, _)
StripItems(xs, i) ==
    IF i > Len(xs) THEN <<>>
    ELSE (IF xs[i].t = "str" /\ Strip(xs[i].s) # <<>> THEN <<Strip(xs[i].s)>> ELSE <<>>)
         \o StripItems(xs, i + 1)
_ensure_list(value) ==
    CASE value.t = "null" -> <<>>
      [] value.t = "arr" -> StripItems(value.items, 1)
      [] value.t = "str" ->
            LET parts == SplitComma(value.s)
            IN  StripItems([i \in 1..Len(parts) |-> PyStr(parts[i])], 1)
      [] OTHER -> <<>>

\* the loop of ProjectPayload._normalize_list
RECURSIVE DedupeLoop(_, _, _, _)
DedupeLoop(items, i, seen, normalized) ==
    IF i > Len(items) THEN normalized
    ELSE IF Lower(items[i]) \in seen THEN DedupeLoop(items, i + 1, seen, normalized)
    ELSE DedupeLoop(items, i + 1, seen \cup {Lower(items[i])}, Append(normalized, items[i]))
\* as _normalize_list, comparing the items without item.lower()
_normalize_list_exact(value) ==
    LET items == _ensure_list(value)
        keep == {i \in 1..Len(items) : \A j \in 1..(i - 1) : items[j] # items[i]}
        nth(k) == CHOOSE i \in keep : Cardinality({j \in keep : j <= i}) = k
    IN  [k \in 1..Cardinality(keep) |-> items[nth(k)]]
_normalize_list(value) == DedupeLoop(_ensure_list(value), 1, {}, <<>>)

\* ProjectPayload._strip_optional, for None and str
_strip_optional(value) ==
    IF value.t = "null" THEN PyNone
    ELSE IF Strip(value.s) = <<>> THEN PyNone ELSE PyStr(Strip(value.s))

\* Field(..., min_length=1, max_length=255) on the title as sent
TitleValid(title) ==
    /\ title.t = "str"
    /\ Len(title.s) >= MinTitleLen
    /\ Len(title.s) <= MaxTitleLen

\* the validated model of a request body; ok is FALSE for a 422
ProjectPayload(body) ==
    [ok |-> TitleValid(body.title),
     title |-> body.title.s,
     description |-> _strip_optional(body.description),
     detail |-> _strip_optional(body.detail),
     skills |-> _normalize_list(body.skills),
     images |-> _normalize_list(body.images),
     links |-> _normalize_list(body.links)]

_project_params(payload) ==
    [title |-> Strip(payload.title),
     description |-> payload.description,
     detail |-> payload.detail,
     skills |-> JsonDumps(StrList(payload.skills)),
     images |-> JsonDumps(StrList(payload.images)),
     links |-> JsonDumps(StrList(payload.links))]

(***************************************************************************)
(* The store: public.projects                                              *)
(***************************************************************************)
\* CAST(:x AS jsonb) of a JSON text
CastJsonb(text) == JsonLoads(text).val

\* the row an insert builds from its parameters
NewRow(id, params, ts) ==
    [id |-> id,
     title |-> params.title,
     description |-> params.description,
     detail |-> params.detail,
     skills |-> CastJsonb(params.skills),
     images |-> CastJsonb(params.images),
     links |-> CastJsonb(params.links),
     created_at |-> ts]

\* the unique index ux_projects_title on lower(title)
TitleKey(row) == Lower(row.title)
Ids(tbl) == {r.id : r \in tbl}
RowOf(tbl, id) == CHOOSE r \in tbl : r.id = id

\* a jsonb column as the driver hands it over: decoded, or as its JSON text
FetchJsonb(v, drv) == IF drv = "native" THEN v ELSE PyStr(JsonDumps(v))
FetchRow(r, drv) ==
    [id |-> r.id, title |-> r.title, description |-> r.description, detail |-> r.detail,
     skills |-> FetchJsonb(r.skills, drv),
     images |-> FetchJsonb(r.images, drv),
     links |-> FetchJsonb(r.links, drv)]

ConvertColumn(value) ==
    IF value.t = "str"
    THEN IF JsonLoads(value.s).ok THEN JsonLoads(value.s).val
         ELSE StrList(_ensure_list(value))
    ELSE StrList(_ensure_list(value))
_convert_row(row) ==
    [row EXCEPT !.skills = ConvertColumn(row.skills),
                !.images = ConvertColumn(row.images),
                !.links = ConvertColumn(row.links)]

\* select ... order by id asc, each row converted
RECURSIVE RowsById(_)
RowsById(tbl) ==
    IF tbl = {} THEN <<>>
    ELSE LET first == RowOf(tbl, MinOf(Ids(tbl)))
         IN  <<first>> \o RowsById(tbl \ {first})
ListItems(tbl, drv) ==
    LET rows == RowsById(tbl)
    IN  [i \in 1..Len(rows) |-> _convert_row(FetchRow(rows[i], drv))]

(***************************************************************************)
(* seed_projects.py                                                        *)
(***************************************************************************)
\* normalize(item); item.get(key) of an absent key is None
normalize(item) ==
    LET images == PyOr(PyOr(item.images, item.image), PyList(<<>>))
        links == PyOr(PyOr(item.links, item.link), PyList(<<>>))
    IN  [title |-> Strip(PyOr(item.title, PyStr(<<>>)).s),
         description |-> item.description,
         detail |-> PyOr(item.detail, item.details),
         skills |-> PyOr(item.skills, PyList(<<>>)),
         images |-> IF images.t = "str" THEN PyList(<<images>>) ELSE images,
         links |-> IF links.t = "str" THEN PyList(<<links>>) ELSE links]

\* the parameters of the seed's insert
SeedParams(row) ==
    [title |-> row.title,
     description |-> row.description,
     detail |-> row.detail,
     skills |-> JsonDumps(row.skills),
     images |-> JsonDumps(row.images),
     links |-> JsonDumps(row.links)]

\* as Upsert, without the on conflict clause
InsertOnly(tbl, params, id, ts) == tbl \cup {NewRow(id, params, ts)}
\* as Upsert, with `title = excluded.title` in the update
UpsertWithTitle(tbl, params, id, ts) ==
    LET excluded == NewRow(id, params, ts)
        hit == {r \in tbl : TitleKey(r) = TitleKey(excluded)}
    IN  IF hit = {} THEN tbl \cup {excluded}
        ELSE (tbl \ hit) \cup
             {[r EXCEPT !.title = excluded.title,
                        !.description = excluded.description,
                        !.detail = excluded.detail,
                        !.skills = excluded.skills,
                        !.images = excluded.images,
                        !.links = excluded.links] : r \in hit}
\* insert ... on conflict ((lower(title))) do update set ...
Upsert(tbl, params, id, ts) ==
    LET excluded == NewRow(id, params, ts)
        hit == {r \in tbl : TitleKey(r) = TitleKey(excluded)}
    IN  IF hit = {} THEN tbl \cup {excluded}
        ELSE (tbl \ hit) \cup
             {[r EXCEPT !.description = excluded.description,
                        !.detail = excluded.detail,
                        !.skills = excluded.skills,
                        !.images = excluded.images,
                        !.links = excluded.links] : r \in hit}

(***************************************************************************)
(* Bounds and inputs                                                       *)
(***************************************************************************)
\* requests, list calls and seed runs in one behaviour
MaxOps == 3
\* the ids a request may name: 1..MaxPathId
MaxPathId == 2

Conns == {1, 2}
Drivers == {"native", "text"}
PathIds == 1..MaxPathId

Pad(n) == [i \in 1..n |-> "x"]
Txt(chars) == PyStr(chars)
Body(title, description, detail, skills, images, links) ==
    [title |-> title, description |-> description, detail |-> detail,
     skills |-> skills, images |-> images, links |-> links]
GoList == PyList(<<Txt(<<"G", "o">>), Txt(<<"g", "o">>), Txt(<<" ", "R", "s", " ">>)>>)
AcBody ==
    Body(Txt(<<" ", "A", "c", " ">>), Txt(<<" ", "d", " ">>), Txt(<<>>),
         GoList, PyNone, Txt(<<"a", ",", " ", "A", ",", ",", "b", " ">>))
UpperBody ==
    Body(Txt(<<"A", "C">>), PyNone, Txt(<<"e">>),
         PyList(<<>>), PyList(<<Txt(<<" ">>), Txt(<<"a">>), Txt(<<"a">>)>>), PyNone)
BlankBody ==
    Body(Txt(<<" ", " ", " ">>), Txt(<<" ", " ">>), PyNone, Txt(<<"G", "o">>), GoList,
         PyList(<<>>))
LongBody == Body(Txt(Pad(MaxTitleLen + 1)), PyNone, PyNone, PyNone, PyNone, PyNone)
\* the bodies POST /projects is sent
Bodies ==
    {AcBody, UpperBody, BlankBody, LongBody,
     Body(Txt(<<>>), PyNone, PyNone, PyNone, PyNone, PyNone),
     Body(Txt(Pad(MaxTitleLen)), PyNone, PyNone, PyNone, PyNone, PyNone),
     Body(Txt(<<" ">> \o Pad(MaxTitleLen)), PyNone, PyNone, PyNone, PyNone, PyNone)}
\* the bodies PUT /projects/{id} is sent
UpdateBodies == {AcBody, UpperBody, BlankBody, LongBody}

Item(title, description, detail, details, skills, images, image, links, link) ==
    [title |-> title, description |-> description, detail |-> detail,
     details |-> details, skills |-> skills, images |-> images, image |-> image,
     links |-> links, link |-> link]
\* the contents of projects.json
Fixtures ==
    {<<Item(Txt(<<" ", "A", "c", " ">>), Txt(<<" ", "d", " ">>), PyNone, Txt(<<"e">>),
            GoList, PyNone, Txt(<<"a">>), PyNone, PyNone),
       Item(Txt(<<"A", "C">>), PyNone, Txt(<<"f">>), PyNone,
            Txt(<<"G", "o", ",", " ", "S">>), PyList(<<Txt(<<"a">>), Txt(<<"A">>)>>),
            PyNone, PyNone, Txt(<<"b">>))>>,
     <<Item(Txt(<<"S">>), PyNone, PyNone, PyNone,
            Txt(<<"1">>), PyDict(<<Txt(<<"k">>), Txt(<<"v">>)>>), PyNone,
            PyNum(<<"7">>), PyNone),
       Item(PyNone, Txt(<<>>), Txt(<<>>), PyNone,
            PyNone, PyList(<<>>), Txt(<<"a">>), Txt(<<"n", "u", "l", "l">>), PyNone)>>}

(***************************************************************************)
(* State                                                                   *)
(***************************************************************************)
VARIABLES
    table,       \* the committed rows of public.projects
    nextId,      \* the next value of the id sequence (bigserial)
    now,         \* the clock; it ticks when a request or a seed run arrives
    driver,      \* how this deployment's driver returns a jsonb column
    conn,        \* per connection: the request it serves and its response
    seed,        \* the seed script's transaction
    listed,      \* the last response of GET /projects
    issued,      \* history: the ids the sequence gave to rows, in order
    deleted,     \* history: the ids of deleted rows
    concurrent,  \* history: the requests held by the two connections overlapped
    lastSeed     \* history: the fixture of the latest seed runs with no write since

vars == <<table, nextId, now, driver, conn, seed, listed, issued, deleted,
          concurrent, lastSeed>>

NoRow ==
    [id |-> 0, title |-> <<>>, description |-> PyNone, detail |-> PyNone,
     skills |-> PyNone, images |-> PyNone, links |-> PyNone, created_at |-> 0]
NoOut == FetchRow(NoRow, "native")
NoBody == Body(PyNone, PyNone, PyNone, PyNone, PyNone, PyNone)
NoEff == [kind |-> "none", old |-> NoRow, new |-> NoRow]
IdleConn ==
    [st |-> "idle", op |-> "none", id |-> 0, body |-> NoBody,
     status |-> 0, row |-> NoOut, eff |-> NoEff]

Init ==
    /\ table = {}
    /\ nextId = 1
    /\ now = 0
    /\ driver \in Drivers
    /\ conn = [c \in Conns |-> IdleConn]
    /\ seed = [pc |-> "idle", fx |-> <<>>, i |-> 0, ts |-> 0, before |-> {}]
    /\ listed = <<>>
    /\ issued = <<>>
    /\ deleted = {}
    /\ concurrent = FALSE
    /\ lastSeed = [fx |-> <<>>, runs |-> 0]

(***************************************************************************)
(* The store's rules for concurrent transactions (read committed)          *)
(***************************************************************************)
InFlight(c) == conn[c].st \in {"begun", "open"}
\* a request is served by the lowest connection that is free
FreeConn(s) == ~InFlight(s) /\ \A c \in Conns : ~InFlight(c) => s <= c

\* the uncommitted writes of the other connections
Others(s) == {conn[c].eff : c \in {d \in Conns \ {s} : conn[d].st = "open"}}
KeysOf(e) ==
    CASE e.kind = "insert" -> {TitleKey(e.new)}
      [] e.kind = "update" -> {TitleKey(e.old), TitleKey(e.new)}
      [] e.kind = "delete" -> {TitleKey(e.old)}
      [] OTHER -> {}
\* a write waits for an open transaction that locked its row, or that wrote
\* or removed an index entry with its key
RowLocked(s, id) == \E e \in Others(s) : e.kind \in {"update", "delete"} /\ e.old.id = id
KeyBusy(s, row) == \E e \in Others(s) : TitleKey(row) \in KeysOf(e)
\* the seed's alter table holds an exclusive lock on the table until it commits
TableLocked == seed.pc = "running"

\* as UniqueViolation, with the index on title instead of lower(title)
UniqueViolationExactTitle(tbl, row) == \E r \in tbl : r.id # row.id /\ r.title = row.title
\* ux_projects_title refuses a second row with the key
UniqueViolation(tbl, row) == \E r \in tbl : r.id # row.id /\ TitleKey(r) = TitleKey(row)

\* nextval of the id sequence: the value handed out, and the value after it
\* as NextVal, with the sequence left where it was
NextValNotAdvanced(seq) == [id |-> seq, next |-> seq]
NextVal(seq) == [id |-> seq, next |-> seq + 1]

\* as UpdatedRow, without `detail = :detail`
UpdatedRowWithoutDetail(old, params) ==
    [old EXCEPT !.title = params.title,
                !.description = params.description,
                !.skills = CastJsonb(params.skills),
                !.images = CastJsonb(params.images),
                !.links = CastJsonb(params.links)]
\* update ... set title, description, detail, skills, images, links where id
UpdatedRow(old, params) ==
    [old EXCEPT !.title = params.title,
                !.description = params.description,
                !.detail = params.detail,
                !.skills = CastJsonb(params.skills),
                !.images = CastJsonb(params.images),
                !.links = CastJsonb(params.links)]

\* as ApplyEff, with a delete that leaves the row in the table
ApplyEffKeepsDeleted(tbl, e) ==
    CASE e.kind = "insert" -> tbl \cup {e.new}
      [] e.kind = "update" -> (tbl \ {e.old}) \cup {e.new}
      [] OTHER -> tbl
\* what a commit makes of the table
ApplyEff(tbl, e) ==
    CASE e.kind = "insert" -> tbl \cup {e.new}
      [] e.kind = "update" -> (tbl \ {e.old}) \cup {e.new}
      [] e.kind = "delete" -> tbl \ {e.old}
      [] OTHER -> tbl

Returning(row) == _convert_row(FetchRow(row, driver))

(***************************************************************************)
(* app.py: the handlers                                                    *)
(***************************************************************************)
\* a request arrives; FastAPI validates its body before the handler runs
Arrive(s, op, id, body, ok) ==
    /\ now < MaxOps
    /\ FreeConn(s)
    /\ conn' = [conn EXCEPT ![s] =
                    [IdleConn EXCEPT !.st = IF ok THEN "begun" ELSE "done",
                                     !.op = op, !.id = id, !.body = body,
                                     !.status = IF ok THEN 0 ELSE 422]]
    /\ now' = now + 1
    /\ concurrent' = \E c \in Conns \ {s} : InFlight(c)
    /\ UNCHANGED <<table, nextId, driver, seed, listed, issued, deleted, lastSeed>>

Fail(s, status) ==
    conn' = [conn EXCEPT ![s].st = "done", ![s].status = status]
Open(s, eff) ==
    conn' = [conn EXCEPT ![s].st = "open", ![s].eff = eff,
                         ![s].row = IF eff.kind = "delete" THEN NoOut ELSE Returning(eff.new)]

\* leaving `with engine.begin()`: the transaction commits
CommitConn(s, op, status) ==
    /\ conn[s].st = "open"
    /\ conn[s].op = op
    /\ table' = ApplyEff(table, conn[s].eff)
    /\ conn' = [conn EXCEPT ![s].st = "done", ![s].status = status, ![s].eff = NoEff]
    /\ deleted' = IF op = "delete" THEN deleted \cup {conn[s].eff.old.id} ELSE deleted
    /\ lastSeed' = [fx |-> <<>>, runs |-> 0]
    /\ UNCHANGED <<nextId, now, driver, seed, listed, issued, concurrent>>

list_projects ==
    /\ now < MaxOps
    /\ ~TableLocked
    /\ listed' = ListItems(table, driver)
    /\ now' = now + 1
    /\ UNCHANGED <<table, nextId, driver, conn, seed, issued, deleted, concurrent, lastSeed>>

create_project_request(s, body) == Arrive(s, "create", 0, body, ProjectPayload(body).ok)

create_project(s) ==
    LET params == _project_params(ProjectPayload(conn[s].body))
        val == NextVal(nextId)
        row == NewRow(val.id, params, now)
    IN  /\ conn[s].st = "begun"
        /\ conn[s].op = "create"
        /\ ~TableLocked
        /\ ~KeyBusy(s, row)
        /\ nextId' = val.next
        /\ IF UniqueViolation(table, row)
           THEN Fail(s, 500) /\ UNCHANGED issued
           ELSE Open(s, [kind |-> "insert", old |-> NoRow, new |-> row])
                /\ issued' = Append(issued, val.id)
        /\ UNCHANGED <<table, now, driver, seed, listed, deleted, concurrent, lastSeed>>

create_project_commit(s) == CommitConn(s, "create", 201)

update_project_request(s, id, body) == Arrive(s, "update", id, body, ProjectPayload(body).ok)

update_project(s) ==
    LET params == _project_params(ProjectPayload(conn[s].body))
        id == conn[s].id
    IN  /\ conn[s].st = "begun"
        /\ conn[s].op = "update"
        /\ ~TableLocked
        /\ ~RowLocked(s, id)
        /\ IF id \notin Ids(table)
           THEN Fail(s, 404)
           ELSE LET old == RowOf(table, id)
                    new == UpdatedRow(old, params)
                IN  /\ ~KeyBusy(s, new)
                    /\ IF UniqueViolation(table, new)
                       THEN Fail(s, 500)
                       ELSE Open(s, [kind |-> "update", old |-> old, new |-> new])
        /\ UNCHANGED <<table, nextId, now, driver, seed, listed, issued, deleted,
                       concurrent, lastSeed>>

update_project_commit(s) == CommitConn(s, "update", 200)

delete_project_request(s, id) == Arrive(s, "delete", id, NoBody, TRUE)

delete_project(s) ==
    LET id == conn[s].id
    IN  /\ conn[s].st = "begun"
        /\ conn[s].op = "delete"
        /\ ~TableLocked
        /\ ~RowLocked(s, id)
        /\ IF id \notin Ids(table)
           THEN Fail(s, 404)
           ELSE Open(s, [kind |-> "delete", old |-> RowOf(table, id), new |-> NoRow])
        /\ UNCHANGED <<table, nextId, now, driver, seed, listed, issued, deleted,
                       concurrent, lastSeed>>

delete_project_commit(s) == CommitConn(s, "delete", 204)

(***************************************************************************)
(* seed_projects.py: one transaction, one upsert per fixture record        *)
(***************************************************************************)
SeedBegin(fx) ==
    /\ now < MaxOps
    /\ seed.pc = "idle"
    /\ \A c \in Conns : conn[c].st # "open"
    /\ now' = now + 1
    /\ seed' = [pc |-> "running", fx |-> fx, i |-> 1, ts |-> now + 1, before |-> table]
    /\ UNCHANGED <<table, nextId, driver, conn, listed, issued, deleted, concurrent, lastSeed>>

SeedRow ==
    LET val == NextVal(nextId)
        after == Upsert(table, SeedParams(normalize(seed.fx[seed.i])), val.id, seed.ts)
    IN  /\ seed.pc = "running"
        /\ seed.i <= Len(seed.fx)
        /\ table' = after
        /\ nextId' = val.next
        /\ issued' = IF val.id \in Ids(after) THEN Append(issued, val.id) ELSE issued
        /\ seed' = [seed EXCEPT !.i = seed.i + 1]
        /\ UNCHANGED <<now, driver, conn, listed, deleted, concurrent, lastSeed>>

SeedCommit ==
    /\ seed.pc = "running"
    /\ seed.i > Len(seed.fx)
    /\ seed' = [seed EXCEPT !.pc = "idle"]
    /\ lastSeed' = IF lastSeed.fx = seed.fx /\ lastSeed.runs >= 1
                   THEN [lastSeed EXCEPT !.runs = lastSeed.runs + 1]
                   ELSE [fx |-> seed.fx, runs |-> 1]
    /\ UNCHANGED <<table, nextId, now, driver, conn, listed, issued, deleted, concurrent>>

Next ==
    \/ list_projects
    \/ \E s \in Conns, body \in Bodies : create_project_request(s, body)
    \/ \E s \in Conns : create_project(s)
    \/ \E s \in Conns : create_project_commit(s)
    \/ \E s \in Conns, id \in PathIds, body \in UpdateBodies : update_project_request(s, id, body)
    \/ \E s \in Conns : update_project(s)
    \/ \E s \in Conns : update_project_commit(s)
    \/ \E s \in Conns, id \in PathIds : delete_project_request(s, id)
    \/ \E s \in Conns : delete_project(s)
    \/ \E s \in Conns : delete_project_commit(s)
    \/ \E fx \in Fixtures : SeedBegin(fx)
    \/ SeedRow
    \/ SeedCommit

Spec == Init /\ [][Next]_vars

(***************************************************************************)
(* What the claims speak of, stated apart from the code's own helpers      *)
(***************************************************************************)
RECURSIVE DropLeading(_)
DropLeading(str) ==
    IF str # <<>> /\ Head(str) = " " THEN DropLeading(Tail(str)) ELSE str
RECURSIVE DropTrailing(_)
DropTrailing(str) ==
    IF str # <<>> /\ str[Len(str)] = " "
    THEN DropTrailing(SubSeq(str, 1, Len(str) - 1))
    ELSE str
\* a text with its surrounding whitespace removed
Trimmed(str) == DropTrailing(DropLeading(str))
SameIgnoringCase(a, b) == Lower(a) = Lower(b)

\* the pieces of a comma-separated text
RECURSIVE PiecesFrom(_, _, _)
PiecesFrom(str, i, piece) ==
    IF i > Len(str) THEN <<piece>>
    ELSE IF str[i] = "," THEN <<piece>> \o PiecesFrom(str, i + 1, <<>>)
    ELSE PiecesFrom(str, i + 1, Append(piece, str[i]))
\* the items a body gives for a list field
PayloadItems(value) ==
    CASE value.t = "arr" -> [i \in 1..Len(value.items) |-> value.items[i].s]
      [] value.t = "str" -> PiecesFrom(value.s, 1, <<>>)
      [] OTHER -> <<>>
\* items trimmed, the empty ones discarded, the first of each case-insensitively
\* equal group kept, in the original order
ExpectedList(items) ==
    LET t == [i \in 1..Len(items) |-> Trimmed(items[i])]
        keep == {i \in 1..Len(t) :
                    t[i] # <<>> /\ \A j \in 1..(i - 1) : ~SameIgnoringCase(t[j], t[i])}
        nth(k) == CHOOSE i \in keep : Cardinality({j \in keep : j <= i}) = k
    IN  [k \in 1..Cardinality(keep) |-> t[nth(k)]]
ExpectedOptional(value) ==
    IF value.t = "null" \/ Trimmed(value.s) = <<>> THEN PyNone ELSE PyStr(Trimmed(value.s))
\* a response row holds the normalised values of a body
HoldsBody(row, body) ==
    /\ row.title = Trimmed(body.title.s)
    /\ row.description = ExpectedOptional(body.description)
    /\ row.detail = ExpectedOptional(body.detail)
    /\ row.skills = StrList(ExpectedList(PayloadItems(body.skills)))
    /\ row.images = StrList(ExpectedList(PayloadItems(body.images)))
    /\ row.links = StrList(ExpectedList(PayloadItems(body.links)))

\* the step in which connection c leaves state `from`
Leaves(c, from, op) == conn[c].st = from /\ conn[c].op = op /\ conn'[c].st # from
Returned(c, op) == conn[c].op = op /\ conn[c].st = "done" /\ conn[c].status \in {200, 201}
ListedRows(tbl, drv) == {ListItems(tbl, drv)[k] : k \in DOMAIN ListItems(tbl, drv)}

(***************************************************************************)
(* C1: the row a create returns, and the row list_projects reads back once *)
(* the create has committed, holds the body's title trimmed, description   *)
(* and detail null when blank and trimmed otherwise, and each list trimmed,*)
(* without empty items, deduplicated ignoring case (first casing kept).    *)
(***************************************************************************)
C1_CreateRoundTrip ==
    [][\A c \in Conns :
          Leaves(c, "open", "create") =>
              /\ conn'[c].status = 201
              /\ HoldsBody(conn'[c].row, conn[c].body)
              /\ conn'[c].row \in ListedRows(table', driver')]_vars
\* a create of the body with title " Ac " and skills ["Go", "go", " Rs "] returned
C1_Witness ==
    \E c \in Conns :
        /\ Returned(c, "create")
        /\ conn[c].body = AcBody
        /\ conn[c].row.title = <<"A", "c">>
        /\ conn[c].row.skills = StrList(<<(<<"G", "o">>), (<<"R", "s">>)>>)
        /\ conn[c].row.links = StrList(<<(<<"a">>), (<<"b">>)>>)
        /\ conn[c].row.detail = PyNone

(***************************************************************************)
(* C2: create and update reject a body (422) exactly when its title,       *)
(* trimmed, is empty or longer than 255 characters; no accepted request    *)
(* writes an empty title.                                                  *)
(***************************************************************************)
C2_TitleValidatedAfterTrim ==
    \A c \in Conns :
        conn[c].op \in {"create", "update"} =>
            LET t == Trimmed(conn[c].body.title.s)
            IN  /\ conn[c].status = 422 <=> (Len(t) = 0 \/ Len(t) > MaxTitleLen)
                /\ conn[c].st = "open" => conn[c].eff.new.title # <<>>

(***************************************************************************)
(* C3: an update that is committed replaces the title, description, detail *)
(* and lists of the row with its id by the body's normalised values, keeps *)
(* the row's id and created_at, and leaves every other row as it was; an   *)
(* update of an id no row has answers 404 and leaves the table as it was.  *)
(***************************************************************************)
C3_UpdateFrame ==
    [][\A c \in Conns :
          LET id == conn[c].id
          IN  /\ Leaves(c, "open", "update") =>
                    /\ id \in Ids(table)
                    /\ conn'[c].status = 200
                    /\ \E new \in table' :
                          /\ new.id = id
                          /\ new.created_at = RowOf(table, id).created_at
                          /\ HoldsBody(new, conn[c].body)
                          /\ conn'[c].row.id = id
                          /\ HoldsBody(conn'[c].row, conn[c].body)
                          /\ table' \ {new} = table \ {RowOf(table, id)}
                          /\ Cardinality(table') = Cardinality(table)
              /\ Leaves(c, "begun", "update") =>
                    /\ table' = table
                    /\ id \notin Ids(table) <=> conn'[c].status = 404
                    /\ id \notin Ids(table) => conn'[c].st = "done"]_vars
\* an update of one of two rows has returned
C3_Witness ==
    \E c \in Conns :
        /\ Returned(c, "update")
        /\ conn[c].row.id \in Ids(table)
        /\ Cardinality(table) >= 2
        /\ RowOf(table, conn[c].row.id).title = conn[c].row.title
        /\ RowOf(table, conn[c].row.id).created_at < now

(***************************************************************************)
(* C4: a delete that is committed removes the row with its id and no       *)
(* other, so that the list no longer has the id and has every other row as *)
(* before; a delete of an id no row has (a deleted id too) answers 404 and *)
(* leaves the table as it was; an id comes into the table only by a create *)
(* or a seed insert.                                                       *)
(***************************************************************************)
C4_DeleteFrame ==
    [][/\ \A c \in Conns :
            LET id == conn[c].id
            IN  /\ Leaves(c, "open", "delete") =>
                      /\ id \in Ids(table)
                      /\ conn'[c].status = 204
                      /\ table' = table \ {RowOf(table, id)}
                      /\ ListedRows(table', driver') =
                             {row \in ListedRows(table, driver) : row.id # id}
                      /\ \A row \in ListedRows(table', driver') : row.id # id
                /\ Leaves(c, "begun", "delete") =>
                      /\ table' = table
                      /\ id \notin Ids(table) <=> conn'[c].status = 404
                      /\ id \in deleted => conn'[c].status = 404
       /\ Ids(table') \ Ids(table) # {} =>
             \/ \E c \in Conns : Leaves(c, "open", "create")
             \/ seed.pc = "running" /\ seed'.i = seed.i + 1]_vars
\* a delete of one of two rows has been committed
C4_Witness ==
    \E c \in Conns :
        /\ conn[c].op = "delete"
        /\ conn[c].status = 204
        /\ conn[c].id \in deleted
        /\ conn[c].id \notin Ids(table)
        /\ table # {}

(***************************************************************************)
(* C5 as amended: a create or an update of an existing row fails the       *)
(* uniqueness constraint, with no effect, exactly when a row other than    *)
(* the one it writes holds a title equal ignoring case, and otherwise goes *)
(* on to commit; in every state no two rows have titles equal ignoring     *)
(* case.                                                                   *)
(***************************************************************************)
TitleTaken(c) ==
    \E r \in table :
        /\ conn[c].op = "update" => r.id # conn[c].id
        /\ SameIgnoringCase(r.title, Trimmed(conn[c].body.title.s))
C5_UniqueTitles ==
    /\ [](\A r1, r2 \in table : r1 # r2 => ~SameIgnoringCase(r1.title, r2.title))
    /\ [][\A c \in Conns :
             /\ conn[c].op \in {"create", "update"}
             /\ conn[c].st = "begun"
             /\ conn'[c].st # "begun"
             /\ conn[c].op = "update" => conn[c].id \in Ids(table)
             => /\ table' = table
                /\ TitleTaken(c) <=> (conn'[c].st = "done" /\ conn'[c].status = 500)
                /\ ~TitleTaken(c) <=> conn'[c].st = "open"]_vars
\* of two overlapping creates with titles equal ignoring case, one has
\* committed and the other has failed the constraint
C5_Witness ==
    /\ concurrent
    /\ conn[1].op = "create" /\ conn[2].op = "create"
    /\ SameIgnoringCase(conn[1].row.title, <<"a", "c">>)
    /\ conn[1].status = 201
    /\ conn[2].status = 500
    /\ conn[1].body # conn[2].body
    /\ Cardinality(table) = 1
\* C5 as written: of overlapping creates and updates with titles equal
\* ignoring case, never more than one commits
C5_ExactlyOneCommits ==
    /\ concurrent
    /\ \A c \in Conns : conn[c].op \in {"create", "update"} /\ conn[c].st = "done"
    /\ SameIgnoringCase(Trimmed(conn[1].body.title.s), Trimmed(conn[2].body.title.s))
    => ~(\A c \in Conns : conn[c].status \in {200, 201})

(***************************************************************************)
(* C6: whatever a list column holds, list_projects returns a sequence of   *)
(* strings for it.                                                         *)
(***************************************************************************)
IsStrSeq(v) == v.t = "arr" /\ \A i \in DOMAIN v.items : v.items[i].t = "str"
C6_ListsAreSequences ==
    seed.pc = "idle" =>
        \A row \in ListedRows(table, driver) :
            IsStrSeq(row.skills) /\ IsStrSeq(row.images) /\ IsStrSeq(row.links)

(***************************************************************************)
(* C7: a seed run that follows a run of the same fixture, with no write in *)
(* between, leaves the table as it found it: the same rows, with the same  *)
(* ids, titles and other fields.                                           *)
(***************************************************************************)
C7_SeedIdempotent ==
    seed.pc = "idle" /\ lastSeed.runs >= 2 => table = seed.before
\* the fixture with two records of one title ignoring case was seeded twice
C7_Witness ==
    /\ seed.pc = "idle"
    /\ lastSeed.runs >= 2
    /\ Len(lastSeed.fx) = 2
    /\ SameIgnoringCase(normalize(lastSeed.fx[1]).title, normalize(lastSeed.fx[2]).title)
    /\ Cardinality(table) = 1
    /\ nextId > 4

(***************************************************************************)
(* C8: the upsert of a fixture record inserts one row when no row has its  *)
(* title ignoring case (the only way the row count grows), and otherwise   *)
(* overwrites description, detail, skills, images and links of the one row *)
(* that has it, keeping that row's id, title and created_at and every      *)
(* other row.                                                              *)
(***************************************************************************)
C8_UpsertFrame ==
    [][seed.pc = "running" /\ seed'.i = seed.i + 1 =>
          LET rec == normalize(seed.fx[seed.i])
              hit == {r \in table : SameIgnoringCase(r.title, rec.title)}
              Filled(r) ==
                  /\ r.description = rec.description
                  /\ r.detail = rec.detail
                  /\ r.skills = rec.skills
                  /\ r.images = rec.images
                  /\ r.links = rec.links
          IN  IF hit = {}
              THEN \E new \in table' :
                      /\ new.id \notin Ids(table)
                      /\ new.title = rec.title
                      /\ Filled(new)
                      /\ table' = table \cup {new}
                      /\ Cardinality(table') = Cardinality(table) + 1
              ELSE \E old \in hit, new \in table' :
                      /\ hit = {old}
                      /\ new.id = old.id
                      /\ new.title = old.title
                      /\ new.created_at = old.created_at
                      /\ Filled(new)
                      /\ table' \ {new} = table \ {old}
                      /\ Cardinality(table') = Cardinality(table)]_vars
\* the seed has overwritten one of two rows that the API created
C8_Witness ==
    /\ seed.pc = "running"
    /\ seed.i > 1
    /\ \E r \in table :
          /\ r.created_at < seed.ts
          /\ r.skills = normalize(seed.fx[seed.i - 1]).skills
          /\ SameIgnoringCase(r.title, normalize(seed.fx[seed.i - 1]).title)
    /\ \E r \in table : ~SameIgnoringCase(r.title, normalize(seed.fx[seed.i - 1]).title)
    /\ nextId - 1 > Len(issued)

(***************************************************************************)
(* C9: every stored skills, images and links value is a JSON array of      *)
(* non-empty trimmed strings, no two equal ignoring case.                  *)
(***************************************************************************)
NormalList(v) ==
    /\ v.t = "arr"
    /\ \A i \in DOMAIN v.items :
          /\ v.items[i].t = "str"
          /\ v.items[i].s # <<>>
          /\ Trimmed(v.items[i].s) = v.items[i].s
          /\ \A j \in 1..(i - 1) : ~SameIgnoringCase(v.items[j].s, v.items[i].s)
C9_StoredListsNormal ==
    seed.pc = "idle" =>
        \A r \in table : NormalList(r.skills) /\ NormalList(r.images) /\ NormalList(r.links)

(***************************************************************************)
(* C10: the ids given to rows grow strictly in the order of creation, an   *)
(* id once given is not given again (not after a delete, a failed write or *)
(* an upsert that hit a row), and a row keeps its id.                      *)
(***************************************************************************)
C10_IdsNeverReused ==
    /\ [](/\ \A i, j \in DOMAIN issued : i < j => issued[i] < issued[j]
          /\ \A i \in DOMAIN issued : issued[i] < nextId
          /\ Ids(table) \subseteq {issued[i] : i \in DOMAIN issued}
          /\ Ids(table) \cap deleted = {}
          /\ Cardinality(Ids(table)) = Cardinality(table))
    /\ [][/\ Ids(table) \ Ids(table') \subseteq deleted'
          /\ \A r \in table, r2 \in table' : r.id = r2.id => r.created_at = r2.created_at
          /\ \A i \in DOMAIN issued : issued'[i] = issued[i]]_vars
\* a row was created after a delete and after a write that failed or hit a row
C10_Witness ==
    /\ deleted # {}
    /\ \E r \in table : \A d \in deleted : r.id > d
    /\ nextId - 1 > Len(issued)
=============================================================================
